---- MODULE Spec2Model ----
(***************************************************************************)
(* Model of the `datafile_test` attribute macro (src/src/lib.rs).          *)
(*                                                                         *)
(* One invocation of the macro is one `Expand` step: it takes the          *)
(* attribute tokens, the annotated item and the file found at the          *)
(* attribute's path, and produces the token stream handed back to the      *)
(* compiler (a sequence of generated test functions and compile_error      *)
(* items).  `RunUnit` is the test harness executing one generated          *)
(* function of a build that compiled.                                      *)
(***************************************************************************)
EXTENDS Integers, Sequences, FiniteSets, TLC

VARIABLES attr, item, file, output, decoder, fsReads, ran, pc

vars == <<attr, item, file, output, decoder, fsReads, ran, pc>>

\* Largest number of entries of a data file.
MaxEntries == 2

-----------------------------------------------------------------------------
(* Inputs *)

\* The attribute is not a single string literal.
NotLit == <<"!">>

\* Attribute paths, as sequences of characters.
Paths ==
  { <<"t", ".", "j", "s", "o", "n">>,
    <<"t", ".", "J", "s", "O", "N">>,
    <<"t", ".", "y", "a", "m", "l">>,
    <<"t", ".", "Y", "M", "L">>,
    <<"t", ".", "j", "s", "o", "n", ".", "y", "m", "l">>,
    <<"t", ".", "t", "x", "t">>,
    <<"t">>,
    <<".", "j", "s", "o", "n">>,
    <<"d", ".", "y", "m", "l", "/", "t">> }

Attrs == {NotLit} \cup Paths

\* The annotated item is not a function.
NotFn == [fn |-> FALSE]

FnNames == {"test", "check"}

\* One function argument: `name: ty`, `(name, _): ty`, `name: &ty`, `self`, `&self`.
Arg(form, name, ty) == [form |-> form, name |-> name, ty |-> ty]

FirstArgs ==
  { Arg("ident", "testcase", "TestCase"),
    Arg("ident", "tc", "TestCase"),
    Arg("ident", "testcase", "i32"),
    Arg("pattern", "a", "TestCase"),
    Arg("ident_ref", "testcase", "&TestCase"),
    Arg("self", "self", "Self"),
    Arg("ref_self", "self", "&Self") }

MoreArgs == { Arg("ident", "extra", "i32"), Arg("self", "self", "Self") }

ArgLists ==
  {<<>>} \cup { <<p>> : p \in FirstArgs }
         \cup { <<p, q>> : p \in FirstArgs, q \in MoreArgs }
         \cup { <<p, q, q>> : p \in {Arg("ident", "testcase", "TestCase")}, q \in MoreArgs }

\* The function body is an opaque block; the one modelled asserts on the value
\* it reads through the name of the first argument.
Items == {NotFn} \cup [fn : {TRUE}, name : FnNames, args : ArgLists, body : {"assert"}]

\* Generic values of a data file.
Obj(n) == [t |-> "obj", n |-> n]
Num(n) == [t |-> "num", n |-> n]
Values == { Obj(3), Obj(99), Num(3) }

\* An entry is a value together with the outcome the two fallible library
\* calls of the per-entry closure have on it.
Entries ==
  [val : Values, lib : {"ok"}] \cup
  [val : {Obj(3)}, lib : {"to_string_err", "parse_str_err"}]

RECURSIVE SeqsUpTo(_, _)
SeqsUpTo(S, n) ==
  IF n = 0 THEN {<<>>}
  ELSE LET shorter == SeqsUpTo(S, n - 1)
       IN shorter \cup { Append(s, e) : s \in { x \in shorter : Len(x) = n - 1 }, e \in S }

\* No readable file at the path.
Missing == [readable |-> FALSE]

\* A readable file: the grammars its text belongs to, the kind of its top
\* level node, and the entries of a top level sequence.
Doc(syntax, top, entries) ==
  [readable |-> TRUE, syntax |-> syntax, top |-> top, entries |-> entries]

Files ==
  {Missing} \cup { Doc("neither", "none", <<>>) }
            \cup { Doc(s, "map", <<>>) : s \in {"both", "json_only", "yaml_only"} }
            \cup { Doc(s, "seq", es) : s \in {"both", "json_only", "yaml_only"},
                                       es \in SeqsUpTo(Entries, MaxEntries) }

-----------------------------------------------------------------------------
(* Path::extension and str::to_lowercase, as used on the attribute's path *)

RECURSIVE LastIndexOf(_, _, _)
\* The largest index i <= n with p[i] = c, or 0.
LastIndexOf(p, c, n) ==
  IF n = 0 THEN 0 ELSE IF p[n] = c THEN n ELSE LastIndexOf(p, c, n - 1)

\* The last component of the path.
FileName(p) == SubSeq(p, LastIndexOf(p, "/", Len(p)) + 1, Len(p))

\* Path::extension() with unwrap_or_default(): the part of the file name after
\* its last dot; empty when there is no dot or the only dot leads the name.
Extension(p) ==
  LET name == FileName(p)
      dot  == LastIndexOf(name, ".", Len(name))
  IN IF dot <= 1 \/ name = <<".", ".">> THEN <<>> ELSE SubSeq(name, dot + 1, Len(name))

LowerChar(c) ==
  CASE c = "J" -> "j" [] c = "S" -> "s" [] c = "O" -> "o" [] c = "N" -> "n"
    [] c = "Y" -> "y" [] c = "A" -> "a" [] c = "M" -> "m" [] c = "L" -> "l"
    [] c = "T" -> "t" [] c = "X" -> "x" [] c = "D" -> "d"
    [] OTHER -> c

\* A to_lowercase that leaves the text as written.
to_lowercase_Identity(s) == s

to_lowercase(s) == [i \in 1..Len(s) |-> LowerChar(s[i])]

ext(file_path) == to_lowercase(Extension(file_path))

-----------------------------------------------------------------------------
(* Decoders and the canonical JSON text *)

Decoded(cases) == [ok |-> TRUE, cases |-> cases]
DecodeFailed == [ok |-> FALSE, cases |-> <<>>]

\* serde_json::from_str::<Vec<Value>>
serde_json_from_str(data_text) ==
  IF data_text.syntax \in {"both", "json_only"} /\ data_text.top = "seq"
  THEN Decoded(data_text.entries) ELSE DecodeFailed

\* serde_yaml::from_str::<Vec<Value>>
serde_yaml_from_str(data_text) ==
  IF data_text.syntax \in {"both", "yaml_only"} /\ data_text.top = "seq"
  THEN Decoded(data_text.entries) ELSE DecodeFailed

\* serde_json::to_string of a value.
json_str(v) ==
  IF v.t = "obj" THEN "{\"output\":" \o ToString(v.n) \o "}" ELSE ToString(v.n)

\* The value a canonical JSON text denotes.
FromJson(s) == CHOOSE v \in Values : json_str(v) = s

-----------------------------------------------------------------------------
(* Diagnostics: a compile_error item, the span it is attached to, the      *)
(* format string of its message and what the format arguments show.        *)

Err(kind, span, text, shows) ==
  [k |-> "error", kind |-> kind, span |-> span, text |-> text, shows |-> shows]

\* parse_macro_input!(attr as LitStr) failed.
AttrParseError == Err("attr_parse", "attr", "expected string literal", {})

\* parse_macro_input!(item as ItemFn) failed.
ItemParseError == Err("item_parse", "item", "expected fn", {})

ArityError ==
  Err("arity", "sig", "datafile_test function must have exactly one argument", {})

FormError ==
  Err("form", "sig", "datafile_test function must take a structured argument", {})

\* A read failure reported at the function signature.
ReadError_SigSpan ==
  Err("read", "sig", "Failed to read data file '{:?}': {}", {"path", "cause"})

ReadError ==
  Err("read", "attr", "Failed to read data file '{:?}': {}", {"path", "cause"})

\* A JSON decode failure whose message leaves out the path.
JsonError_NoPath ==
  Err("json", "attr", "Failed to parse JSON file: {}", {"cause"})

JsonError ==
  Err("json", "attr", "Failed to parse JSON file '{:?}': {}", {"path", "cause"})

YamlError ==
  Err("yaml", "attr", "Failed to parse YAML file '{:?}': {}", {"path", "cause"})

ExtError ==
  Err("ext", "attr", "Unsupported file extension: {:?}", {"ext"})

ToStringError ==
  Err("to_string", "attr", "Failed to convert test case to JSON: {}", {"cause"})

ParseStrError ==
  Err("parse_str", "attr", "Failed to parse test case JSON as Rust expression: {}", {"cause"})

-----------------------------------------------------------------------------
(* The per-entry closure *)

\* A name numbered from one.
test_fn_name_OneBased(fn_name, i) == fn_name \o "_case_" \o ToString(i + 1)

\* format_ident!("{}_case_{}", fn_name, i)
test_fn_name(fn_name, i) == fn_name \o "_case_" \o ToString(i)

\* Whether serde_json::from_str::<ty> accepts the value.
Deserializes(ty, v) ==
  \/ ty = "TestCase" /\ v.t = "obj"
  \/ ty = "i32" /\ v.t = "num"

\* The generated function:
\*   #[test] fn <name>() { let testcase: <ty> = from_str::<ty>(<json>).unwrap(); <body> }
Unit(name, ty, json, body) ==
  [k |-> "unit", name |-> name, binding |-> "testcase", ty |-> ty,
   json |-> json, body |-> body]

\* A closure that also checks the entry against the declared type.
test_fn_TypeChecked(fn_name, test_case_type, fn_body, i, test_case) ==
  IF test_case.lib = "to_string_err" THEN ToStringError
  ELSE IF test_case.lib = "parse_str_err" THEN ParseStrError
  ELSE IF ~Deserializes(test_case_type, test_case.val) THEN ParseStrError
  ELSE Unit(test_fn_name(fn_name, i), test_case_type, json_str(test_case.val), fn_body)

\* The closure mapped over test_cases.iter().enumerate(); a `return` in it
\* yields the closure's item, it does not leave the macro.
test_fn(fn_name, test_case_type, fn_body, i, test_case) ==
  IF test_case.lib = "to_string_err" THEN ToStringError
  ELSE IF test_case.lib = "parse_str_err" THEN ParseStrError
  ELSE Unit(test_fn_name(fn_name, i), test_case_type, json_str(test_case.val), fn_body)

test_fns(fn_name, test_case_type, fn_body, test_cases) ==
  [j \in 1..Len(test_cases) |->
     test_fn(fn_name, test_case_type, fn_body, j - 1, test_cases[j])]

-----------------------------------------------------------------------------
(* The macro *)

\* An arity check that only refuses an empty argument list.
ArityOk_AtLeastOne(fn_args) == Len(fn_args) >= 1

\* fn_args.len() != 1 is refused.
ArityOk(fn_args) == Len(fn_args) = 1

\* A form check that lets every argument through.
IsTyped_Any(arg) == TRUE

\* syn::FnArg::Typed, as opposed to syn::FnArg::Receiver.
IsTyped(arg) == arg.form \in {"ident", "pattern", "ident_ref"}

Result(out, dec, reads) == [output |-> out, decoder |-> dec, fsReads |-> reads]

\* Steps after the file was read: extension, decode, generation.
Generate(file_path, input_fn, data_text) ==
  LET e  == ext(file_path)
      ty == input_fn.args[1].ty
      gen(cases) == test_fns(input_fn.name, ty, input_fn.body, cases)
  IN IF e = <<"j", "s", "o", "n">>
     THEN LET r == serde_json_from_str(data_text)
          IN IF r.ok THEN Result(gen(r.cases), "json", 1)
             ELSE Result(<<JsonError>>, "json", 1)
     ELSE IF e = <<"y", "a", "m", "l">> \/ e = <<"y", "m", "l">>
     THEN LET r == serde_yaml_from_str(data_text)
          IN IF r.ok THEN Result(gen(r.cases), "yaml", 1)
             ELSE Result(<<YamlError>>, "yaml", 1)
     ELSE Result(<<ExtError>>, "none", 1)

\* A macro that looks at the extension before it reads the file.
datafile_test_ExtFirst(a, it, f) ==
  IF a = NotLit THEN Result(<<AttrParseError>>, "none", 0)
  ELSE IF ~it.fn THEN Result(<<ItemParseError>>, "none", 0)
  ELSE IF ~ArityOk(it.args) THEN Result(<<ArityError>>, "none", 0)
  ELSE IF ~IsTyped(it.args[1]) THEN Result(<<FormError>>, "none", 0)
  ELSE IF ext(a) \notin {<<"j", "s", "o", "n">>, <<"y", "a", "m", "l">>, <<"y", "m", "l">>}
  THEN Result(<<ExtError>>, "none", 0)
  ELSE IF ~f.readable THEN Result(<<ReadError>>, "none", 1)
  ELSE Generate(a, it, f)

\* The token stream the macro returns for attribute a on item it, with f the
\* file at the path; with it, the decoder used and the number of file reads.
datafile_test(a, it, f) ==
  IF a = NotLit THEN Result(<<AttrParseError>>, "none", 0)
  ELSE IF ~it.fn THEN Result(<<ItemParseError>>, "none", 0)
  ELSE IF ~ArityOk(it.args) THEN Result(<<ArityError>>, "none", 0)
  ELSE IF ~IsTyped(it.args[1]) THEN Result(<<FormError>>, "none", 0)
  ELSE IF ~f.readable THEN Result(<<ReadError>>, "none", 1)
  ELSE Generate(a, it, f)

-----------------------------------------------------------------------------
(* The generated functions under the test harness *)

\* The body's assertion on the value it was given.
BodyPasses(v) == v.n = 3

\* from_str::<ty>(json).unwrap() panics on a value of another shape; otherwise
\* the body runs on the value.
UnitOutcome(u) ==
  LET v == FromJson(u.json)
  IN IF ~Deserializes(u.ty, v) THEN "abort"
     ELSE IF BodyPasses(v) THEN "pass" ELSE "fail"

\* The returned items compile: none is a compile_error, the body finds the
\* name it reads, and the declared type is one from_str can produce.
Compiles ==
  /\ pc = "expanded"
  /\ \A j \in 1..Len(output) :
       /\ output[j].k = "unit"
       /\ output[j].binding = item.args[1].name
       /\ output[j].ty \in {"TestCase", "i32"}

-----------------------------------------------------------------------------
(* State machine *)

Init ==
  /\ attr = NotLit
  /\ item = NotFn
  /\ file = Missing
  /\ output = <<>>
  /\ decoder = "none"
  /\ fsReads = 0
  /\ ran = <<>>
  /\ pc = "idle"

Expand ==
  /\ pc = "idle"
  /\ \E a \in Attrs, it \in Items, f \in Files :
       LET r == datafile_test(a, it, f)
       IN /\ attr' = a
          /\ item' = it
          /\ file' = f
          /\ output' = r.output
          /\ decoder' = r.decoder
          /\ fsReads' = r.fsReads
  /\ ran' = [j \in {} |-> "none"]
  /\ pc' = "expanded"

RunUnit ==
  /\ Compiles
  /\ \E j \in 1..Len(output) :
       /\ j \notin DOMAIN ran
       /\ ran' = [x \in DOMAIN ran \cup {j} |->
                    IF x = j THEN UnitOutcome(output[j]) ELSE ran[x]]
  /\ UNCHANGED <<attr, item, file, output, decoder, fsReads, pc>>

Next == Expand \/ RunUnit

Spec == Init /\ [][Next]_vars

-----------------------------------------------------------------------------
(* Vocabulary of the properties, stated on the inputs of the invocation    *)

Expanded == pc = "expanded"

UnitsOf(out) == { j \in 1..Len(out) : out[j].k = "unit" }
ErrorsOf(out) == { j \in 1..Len(out) : out[j].k = "error" }

\* The output is one diagnostic of the given kind and nothing else.
OnlyError(kind) ==
  /\ Len(output) = 1
  /\ output[1].k = "error"
  /\ output[1].kind = kind

JsonPaths == { <<"t", ".", "j", "s", "o", "n">>, <<"t", ".", "J", "s", "O", "N">> }

YamlPaths ==
  { <<"t", ".", "y", "a", "m", "l">>,
    <<"t", ".", "Y", "M", "L">>,
    <<"t", ".", "j", "s", "o", "n", ".", "y", "m", "l">> }

IsReceiver(arg) == arg.form \in {"self", "ref_self"}

\* The annotation and the signature are accepted.
SignatureAccepted ==
  /\ attr # NotLit
  /\ item.fn
  /\ Len(item.args) = 1
  /\ ~IsReceiver(item.args[1])

\* The file was read and its text decodes, under the decoder of the path's
\* extension, to a top level sequence.
DecodesToSequence ==
  /\ SignatureAccepted
  /\ file.readable
  /\ file.top = "seq"
  /\ \/ attr \in JsonPaths /\ file.syntax \in {"both", "json_only"}
     \/ attr \in YamlPaths /\ file.syntax \in {"both", "yaml_only"}

Digits == <<"0", "1", "2", "3", "4", "5", "6", "7", "8", "9">>

\* F_case_i for a one digit index i.
CaseName(F, i) == F \o "_case_" \o Digits[i + 1]

CanonicalText(v) ==
  CASE v = Obj(3)  -> "{\"output\":3}"
    [] v = Obj(99) -> "{\"output\":99}"
    [] v = Num(3)  -> "3"

\* Output item j is the test unit of entry j.
IsUnitOfEntry(j) ==
  /\ output[j].k = "unit"
  /\ output[j].name = CaseName(item.name, j - 1)
  /\ output[j].json = CanonicalText(file.entries[j].val)

AllEntriesOk == \A j \in 1..Len(file.entries) : file.entries[j].lib = "ok"

-----------------------------------------------------------------------------
(* C1 *)

-----------------------------------------------------------------------------
(* C2 *)

\* C2 (as stated): in every generated unit the deserialized value is bound to
\* the identifier the user wrote for the single parameter.
C2_Original ==
  (Expanded /\ SignatureAccepted /\ item.args[1].form = "ident") =>
    \A j \in UnitsOf(output) : output[j].binding = item.args[1].name

-----------------------------------------------------------------------------
(* C3 *)

\* C3 (as stated): whenever the output carries a diagnostic it carries no
\* test unit.
C3_Original ==
  (Expanded /\ ErrorsOf(output) # {}) => UnitsOf(output) = {}

-----------------------------------------------------------------------------
(* C4 *)

\* C4: a function with 0 or with 2 or more parameters yields the arity
\* diagnostic and no unit, whatever the path and the file.
C4_ArityRejected ==
  (Expanded /\ attr # NotLit /\ item.fn /\ Len(item.args) # 1) =>
    /\ OnlyError("arity")
    /\ output[1].text = "datafile_test function must have exactly one argument"

C4_Witness ==
  /\ Expanded /\ attr \in JsonPaths /\ item.fn
  /\ Len(item.args) = 2
  /\ file.readable /\ file.top = "seq" /\ file.syntax = "both"
  /\ Len(file.entries) = 2 /\ AllEntriesOk
  /\ OnlyError("arity")

-----------------------------------------------------------------------------
(* C5 *)

\* C5 (as stated): a single parameter that is a destructuring pattern, a
\* `self` receiver or a reference form yields a diagnostic and no unit.
C5_Original ==
  (Expanded /\ attr # NotLit /\ item.fn /\ Len(item.args) = 1
     /\ item.args[1].form \in {"pattern", "self", "ref_self", "ident_ref"}) =>
    /\ ErrorsOf(output) # {}
    /\ UnitsOf(output) = {}

\* C5 (amended): a single parameter that is a `self` receiver, by value or
\* borrowed, yields the parameter-form diagnostic and no unit; a destructuring
\* pattern and a binding of reference type pass this check.
C5_Amended ==
  (Expanded /\ attr # NotLit /\ item.fn /\ Len(item.args) = 1) =>
    /\ IsReceiver(item.args[1]) =>
         /\ OnlyError("form")
         /\ output[1].text = "datafile_test function must take a structured argument"
    /\ ~IsReceiver(item.args[1]) =>
         \A j \in ErrorsOf(output) : output[j].kind # "form"

C5_Witness ==
  /\ Expanded /\ attr \in YamlPaths /\ item.fn
  /\ Len(item.args) = 1 /\ item.args[1].form = "ref_self"
  /\ file.readable /\ file.top = "seq" /\ file.syntax = "both"
  /\ Len(file.entries) = 1 /\ AllEntriesOk
  /\ OnlyError("form")

-----------------------------------------------------------------------------
(* C6 *)

\* C6: once the file is read, the decoder is a function of the path's
\* lower-cased extension alone: json in any letter case selects the JSON
\* decoder, yaml and yml the YAML decoder, anything else (no extension
\* included) gives the unsupported-extension diagnostic and no unit; a
\* .json file holding YAML-only text fails with the JSON diagnostic.
C6_DecoderByExtension ==
  (Expanded /\ SignatureAccepted /\ file.readable) =>
    /\ attr \in JsonPaths => decoder = "json"
    /\ attr \in YamlPaths => decoder = "yaml"
    /\ attr \notin JsonPaths \cup YamlPaths => decoder = "none" /\ OnlyError("ext")
    /\ (attr \in JsonPaths /\ file.syntax = "yaml_only") => OnlyError("json")
    /\ (attr \in YamlPaths /\ file.syntax = "json_only") => OnlyError("yaml")

C6_Witness ==
  /\ Expanded /\ SignatureAccepted
  /\ attr = <<"t", ".", "J", "s", "O", "N">>
  /\ file.readable /\ file.syntax = "yaml_only" /\ file.top = "seq"
  /\ Len(file.entries) = 2
  /\ decoder = "json"
  /\ OnlyError("json")

-----------------------------------------------------------------------------
(* C7 *)

ListedKinds == {"arity", "form", "read", "ext", "json", "yaml", "to_string", "parse_str"}

\* C7 (as stated): every diagnostic of the error list is bound to the span of
\* the annotation.
C7_Original ==
  Expanded =>
    \A j \in ErrorsOf(output) :
      output[j].kind \in ListedKinds => output[j].span = "attr"

\* C7 (amended): the read, extension, decode and per-entry diagnostics are
\* bound to the span of the annotation; the arity and parameter-form
\* diagnostics are bound to the span of the function signature.
C7_Amended ==
  Expanded =>
    \A j \in ErrorsOf(output) :
      /\ output[j].kind \in {"read", "ext", "json", "yaml", "to_string", "parse_str"}
           => output[j].span = "attr"
      /\ output[j].kind \in {"arity", "form"} => output[j].span = "sig"

C7_Witness ==
  /\ Expanded /\ SignatureAccepted
  /\ ~file.readable
  /\ OnlyError("read")
  /\ output[1].span = "attr"

-----------------------------------------------------------------------------
(* C8 *)

\* C8 (as stated): every diagnostic message shows the path and the cause, and
\* a per-entry diagnostic shows the index of its entry.
C8_Original ==
  Expanded =>
    \A j \in ErrorsOf(output) :
      output[j].kind \in ListedKinds =>
        /\ {"path", "cause"} \subseteq output[j].shows
        /\ output[j].kind \in {"to_string", "parse_str"} => "index" \in output[j].shows

\* C8 (amended): the read and decode diagnostics show the path and the cause;
\* the unsupported-extension diagnostic shows the extension only; a per-entry
\* diagnostic shows the cause only, neither the index nor the path; the arity
\* and parameter-form diagnostics are fixed texts.
C8_Amended ==
  Expanded =>
    \A j \in ErrorsOf(output) :
      /\ output[j].kind \in {"read", "json", "yaml"} => output[j].shows = {"path", "cause"}
      /\ output[j].kind = "ext" => output[j].shows = {"ext"}
      /\ output[j].kind \in {"to_string", "parse_str"} => output[j].shows = {"cause"}
      /\ output[j].kind \in {"arity", "form"} => output[j].shows = {}

C8_Witness ==
  /\ Expanded /\ DecodesToSequence
  /\ attr \in JsonPaths
  /\ Len(file.entries) = 2
  /\ file.entries[1].lib = "ok"
  /\ file.entries[2].lib = "parse_str_err"
  /\ output[2].k = "error"
  /\ output[2].kind = "parse_str"
  /\ output[2].shows = {"cause"}

-----------------------------------------------------------------------------
(* C9 *)

\* The entry has the shape of the declared type.
MatchesType(ty, v) ==
  (ty = "TestCase" /\ v \in {Obj(3), Obj(99)}) \/ (ty = "i32" /\ v = Num(3))

\* C9: for a file that decodes to a sequence, the number of output items and
\* which of them are units do not depend on whether an entry has the shape of
\* the declared type; an executed unit aborts exactly when its own entry does
\* not match, and otherwise has the outcome of the body on its own entry.
C9_ShapeDeferred ==
  (Expanded /\ DecodesToSequence) =>
    /\ Len(output) = Len(file.entries)
    /\ \A j \in 1..Len(output) :
         (output[j].k = "unit") <=> (file.entries[j].lib = "ok")
    /\ \A j \in DOMAIN ran :
         ran[j] = IF ~MatchesType(item.args[1].ty, file.entries[j].val) THEN "abort"
                  ELSE IF file.entries[j].val.n = 3 THEN "pass" ELSE "fail"

C9_Witness ==
  /\ Expanded /\ DecodesToSequence
  /\ item.args[1].ty = "TestCase"
  /\ Len(file.entries) = 2
  /\ file.entries[1].val = Num(3)
  /\ file.entries[2].val = Obj(3)
  /\ DOMAIN ran = {1, 2}
  /\ ran[1] = "abort"
  /\ ran[2] = "pass"

-----------------------------------------------------------------------------
(* C10 *)

\* The first check, in the order of the claim, that the inputs fail.
FirstFailure ==
  IF attr = NotLit THEN "attr_parse"
  ELSE IF ~item.fn THEN "item_parse"
  ELSE IF Len(item.args) # 1 THEN "arity"
  ELSE IF IsReceiver(item.args[1]) THEN "form"
  ELSE IF ~file.readable THEN "read"
  ELSE IF attr \notin JsonPaths \cup YamlPaths THEN "ext"
  ELSE IF ~DecodesToSequence THEN (IF attr \in JsonPaths THEN "json" ELSE "yaml")
  ELSE "none"

\* C10: the first failing check, in the order annotation, arity, parameter
\* form, file read, extension, decode, decides the diagnostic, and the
\* per-entry step comes last; the file is read at most once, and not at all
\* when the annotation or the signature is rejected; a missing file under an
\* unsupported extension gives the read diagnostic.
C10_CheckOrder ==
  Expanded =>
    /\ FirstFailure # "none" => OnlyError(FirstFailure)
    /\ FirstFailure = "none" =>
         \A j \in ErrorsOf(output) : output[j].kind \in {"to_string", "parse_str"}
    /\ fsReads = IF FirstFailure \in {"attr_parse", "item_parse", "arity", "form"}
                 THEN 0 ELSE 1

C10_Witness ==
  /\ Expanded /\ SignatureAccepted
  /\ attr = <<"t", ".", "t", "x", "t">>
  /\ ~file.readable
  /\ OnlyError("read")
  /\ fsReads = 1

====
